---- MODULE Spec2Model ----
(***************************************************************************)
(* Model of crates/typed-store-derive/src/lib.rs: the DBMapUtils derive    *)
(* macro (schema validation, extract_struct_info) and the code it          *)
(* generates for a table struct (options resolution, open_tables_impl,     *)
(* open_tables_read_write, get_read_only_handle / open_tables_read_only,   *)
(* dump, count_keys and the TypedStoreDebug wrappers).  The storage engine *)
(* behind typed_store::rocks (locks, secondary instances, catch-up) is     *)
(* modelled at its interface.                                              *)
(***************************************************************************)
EXTENDS Integers, Sequences, FiniteSets, TLC

VARIABLES
    input,      \* the ItemStruct handed to the derive macro
    derived,    \* what derive_dbmap_utils_general made of it
    disk,       \* per path: the on-disk store (exists, column families, data)
    lock,       \* per path: the handle set holding the primary write lock
    handles,    \* the live handle sets, by id
    scratch,    \* the temporary directories that exist on the file system
    tmpSeq,     \* number of temporary directories created so far
    inflight,   \* the dump/count_keys calls between their catch-up and their read
    last        \* the latest call: operation, arguments, outcome, engine calls

vars == <<input, derived, disk, lock, handles, scratch, tmpSeq, inflight, last>>

(***************************************************************************)
(* Bounds of the model.                                                    *)
(***************************************************************************)
MaxFields == 2      \* longest field list fed to the derive macro
MaxHandles == 3     \* handle sets alive at once
MaxOpeners == 2     \* handle sets alive at once, where every override map is tried
MaxScratch == 1     \* temporary directories created in one behaviour
MaxKey == 2         \* keys are 1..MaxKey
MaxInflight == 2    \* dump/count_keys calls running at once

\* Option<T>: None is the empty sequence, Some(x) the one-element sequence.
None == <<>>
Some(x) == <<x>>

(***************************************************************************)
(* Part 1.  The derive macro: schema validation.                           *)
(***************************************************************************)

\* lib.rs:16
DEFAULT_DB_OPTIONS_CUSTOM_FN == "typed_store::rocks::default_rocksdb_options"
\* lib.rs:18
DB_OPTIONS_CUSTOM_FUNCTION == "default_options_override_fn"

\* lib.rs:25-29, GeneralTableOptions::default()
GeneralTableOptions_default == [OverrideFunction |-> DEFAULT_DB_OPTIONS_CUSTOM_FN]

\* lib.rs:281-284: name of the table kind -> its post-processing function
allowed_types_with_post_process_fn ==
    [s \in {"DBMap", "Store"} |-> IF s = "DBMap" THEN "" ELSE "typed_store::Store::new"]

\* The panics of the macro.  allowed_strs joins a HashSet, so the order of
\* the kinds inside the first message is not fixed; the message is kept as
\* its format string.
PanicInvalidFieldType == "All struct members must be of type {allowed_strs}"
PanicHeterogeneous == "All struct members must be of same type"
PanicEmpty == "Cannot derive on empty struct"
PanicUnwrapErr == "called Result::unwrap() on an Err value"
PanicUnwrapNone == "called Option::unwrap() on a None value"
PanicGenerics == "Unspoorted generic type"

\* An attribute is [path, meta, lit, value]: meta is the shape parse_meta()
\* finds ("NameValue", "Path", "List", or "Unparsable" when it fails), lit the
\* kind of the literal of a NameValue.
get_options_override_function(attr) ==
    IF attr.meta = "Unparsable" THEN [ok |-> FALSE, value |-> ""]
    ELSE IF attr.meta # "NameValue" THEN [ok |-> FALSE, value |-> ""]
    ELSE IF attr.path # DB_OPTIONS_CUSTOM_FUNCTION THEN [ok |-> FALSE, value |-> ""]
    ELSE IF attr.lit # "Str" THEN [ok |-> FALSE, value |-> ""]
    ELSE [ok |-> TRUE, value |-> attr.value]

\* The closure of lib.rs:48-84 on one field f = [ident, attrs, ty].  Of a
\* path type, ty.ident and ty.arguments are those of the first segment of
\* the path (lib.rs:64), ty.last and ty.last_arguments those of its last
\* segment, which names the type.
field_info(f, allowed_map_type_names) ==
    LET attrs == SelectSeq(f.attrs, LAMBDA a : a.path = DB_OPTIONS_CUSTOM_FUNCTION)
        parsed == get_options_override_function(attrs[1])
    IN  IF attrs # <<>> /\ ~parsed.ok
        THEN [panic |-> Some(PanicUnwrapErr)]
        ELSE
        LET options == IF attrs = <<>> THEN GeneralTableOptions_default
                       ELSE [OverrideFunction |-> parsed.value]
        IN  IF f.ty.kind = "Path"
            THEN IF f.ty.arguments # "AngleBracketed"
                 THEN [panic |-> Some(PanicInvalidFieldType)]
                 ELSE IF f.ty.ident \in allowed_map_type_names
                      THEN IF f.ident = None
                           THEN [panic |-> Some(PanicUnwrapNone)]
                           ELSE [panic |-> None, name |-> f.ident[1],
                                 type_str |-> f.ty.ident,
                                 inner_type |-> f.ty.inner, options |-> options]
                      ELSE [panic |-> Some(PanicInvalidFieldType)]
            ELSE [panic |-> Some(PanicInvalidFieldType)]

\* lib.rs:32-108.  The fields are visited in order by unzip(), so the first
\* field that panics decides the message; the homogeneity and emptiness
\* checks come after all fields were visited.
extract_struct_info(fields, allowed_map_type_names) ==
    LET info == [i \in 1..Len(fields) |-> field_info(fields[i], allowed_map_type_names)]
        bad == {i \in 1..Len(fields) : info[i].panic # None}
    IN  IF bad # {}
        THEN [ok |-> FALSE,
              panic |-> info[CHOOSE i \in bad : \A j \in bad : i <= j].panic[1]]
        ELSE IF Len(fields) = 0
        THEN [ok |-> FALSE, panic |-> PanicEmpty]
        ELSE IF \E i \in 1..Len(fields) : info[i].type_str # info[1].type_str
        THEN [ok |-> FALSE, panic |-> PanicHeterogeneous]
        ELSE [ok |-> TRUE,
              field_names |-> [i \in 1..Len(fields) |-> info[i].name],
              inner_types |-> [i \in 1..Len(fields) |-> info[i].inner_type],
              options |-> [i \in 1..Len(fields) |-> info[i].options],
              simple_field_type_name_str |-> info[1].type_str]

\* lib.rs:142-151: only type parameters are supported.
extract_generics_names(generics) ==
    IF \E i \in 1..Len(generics) : generics[i].kind # "Type"
    THEN [ok |-> FALSE, panic |-> PanicGenerics]
    ELSE [ok |-> TRUE, names |-> [i \in 1..Len(generics) |-> generics[i].ident]]

\* lib.rs:275-597: the macro either panics (compilation fails, no code) or
\* emits the table-set code, described here by what the code is generated
\* from.
derive_dbmap_utils_general(item) ==
    LET generics_names == extract_generics_names(item.generics)
        info == extract_struct_info(item.fields, DOMAIN allowed_types_with_post_process_fn)
    IN  IF ~generics_names.ok
        THEN [code |-> FALSE, panic |-> generics_names.panic]
        ELSE IF ~info.ok
        THEN [code |-> FALSE, panic |-> info.panic]
        ELSE [code |-> TRUE,
              name |-> item.ident,
              field_names |-> info.field_names,
              inner_types |-> info.inner_types,
              default_options_override_fn_names |->
                  [i \in 1..Len(item.fields) |-> info.options[i].OverrideFunction],
              post_process_fn |->
                  allowed_types_with_post_process_fn[info.simple_field_type_name_str]]

(***************************************************************************)
(* Inputs of the macro explored by SpecSchema.                             *)
(***************************************************************************)
OverrideAttr(fn) ==
    [path |-> DB_OPTIONS_CUSTOM_FUNCTION, meta |-> "NameValue", lit |-> "Str", value |-> fn]
DocAttr == [path |-> "doc", meta |-> "NameValue", lit |-> "Str", value |-> "a table"]
ListAttr == [path |-> DB_OPTIONS_CUSTOM_FUNCTION, meta |-> "List", lit |-> "", value |-> ""]
IntAttr == [path |-> DB_OPTIONS_CUSTOM_FUNCTION, meta |-> "NameValue", lit |-> "Int", value |-> "1"]

\* kind<i32, String>
MapType(kind) ==
    [kind |-> "Path", ident |-> kind, arguments |-> "AngleBracketed",
     inner |-> "<i32, String>", last |-> kind, last_arguments |-> "AngleBracketed"]
\* typed_store::rocks::kind<i32, String>
QualifiedMapType(kind) ==
    [kind |-> "Path", ident |-> "typed_store", arguments |-> "None",
     inner |-> "", last |-> kind, last_arguments |-> "AngleBracketed"]
\* name, a path of one segment without arguments
PlainType(name) ==
    [kind |-> "Path", ident |-> name, arguments |-> "None",
     inner |-> "", last |-> name, last_arguments |-> "None"]
\* &'static str
ReferenceType ==
    [kind |-> "Reference", ident |-> "", arguments |-> "None",
     inner |-> "", last |-> "", last_arguments |-> "None"]

TypeChoices ==
    { MapType("DBMap"), MapType("Store"), MapType("Vec"), QualifiedMapType("DBMap"),
      PlainType("DBMap"), PlainType("u32"), ReferenceType }

AttrChoices ==
    { <<>>, <<DocAttr, OverrideAttr("custom_fn_name1")>>, <<ListAttr>>, <<IntAttr>> }

FieldShapes == [attrs : AttrChoices, ty : TypeChoices]

FieldName(i) == "table" \o ToString(i)

\* The fields of a struct are all named (struct T { a: A }) or all unnamed
\* (struct T(A)).
FieldsOf(shapes, named) ==
    [i \in 1..Len(shapes) |->
        [ident |-> IF named THEN Some(FieldName(i)) ELSE None,
         attrs |-> shapes[i].attrs, ty |-> shapes[i].ty]]

GenericsChoices == { <<>>, <<[kind |-> "Type", ident |-> "T"]>>, <<[kind |-> "Lifetime", ident |-> "a"]>> }

Inputs ==
    { [ident |-> "Tables", generics |-> g, fields |-> FieldsOf(s, named)] :
        g \in GenericsChoices, named \in BOOLEAN,
        s \in UNION { [1..n -> FieldShapes] : n \in 0..MaxFields } }

NotDerived == [code |-> FALSE, panic |-> "not derived yet"]

(***************************************************************************)
(* Part 2.  The table struct the generated code is modelled for: the       *)
(* struct of the macro's documentation (lib.rs:183-194), cut to two        *)
(* tables, one with an override function and one without.                  *)
(***************************************************************************)
TablesStruct ==
    [ident |-> "Tables", generics |-> <<>>,
     fields |-> << [ident |-> Some("table2"),
                    attrs |-> <<OverrideAttr("custom_fn_name2")>>,
                    ty |-> MapType("DBMap")],
                   [ident |-> Some("table3"), attrs |-> <<>>, ty |-> MapType("DBMap")] >>]

Generated == derive_dbmap_utils_general(TablesStruct)

\* The generated code is the expansion of the macro's output, held by the
\* variable derived: #field_names as a sequence and as a set, and
\* #default_options_override_fn_names.
field_names == derived.field_names
default_options_override_fn_names == derived.default_options_override_fn_names
Names == {field_names[i] : i \in DOMAIN field_names}

(***************************************************************************)
(* Values of the model.                                                    *)
(***************************************************************************)
Paths == {"p1", "p2"}            \* primary paths
GivenSecondaryPaths == {"s1"}    \* secondary paths a caller supplies
HandleIds == 1..MaxHandles
NoHandle == [struct |-> "none"]
NoHolder == 0
Keys == 1..MaxKey
DeclaredNames == {"table2", "table3"}          \* the tables of TablesStruct
TableNames == DeclaredNames \cup {"no_such_table"}   \* names passed to introspection

\* rocksdb::Options values: what a function returns, what a caller supplies
OptionsFrom(fn) == [from |-> fn]
CallerOptions == {OptionsFrom("caller_a"), OptionsFrom("caller_b")}
\* DBMapTableConfigMap: any map from some table names to options
ConfigMaps == UNION { [S -> CallerOptions] : S \in SUBSET DeclaredNames }
OverrideChoices == {None} \cup {Some(m) : m \in ConfigMaps}

NoStore == [exists |-> FALSE, cfs |-> {}, data |-> <<>>]

(***************************************************************************)
(* Part 3.  The engine behind typed_store::rocks, at its interface.  A     *)
(* table is a set of <<key, value>> pairs with distinct keys.              *)
(***************************************************************************)

\* typed_store::rocks::open_cf_opts: exclusive read-write open; takes the
\* write lock of the path and creates the missing column families, empty.
create_missing(store, names) ==
    [exists |-> TRUE,
     cfs |-> store.cfs \cup names,
     data |-> [t \in store.cfs \cup names |->
                 IF t \in store.cfs THEN store.data[t] ELSE {}]]

open_cf_opts(h, path, opt_cfs) ==
    IF lock[path] # NoHolder
    THEN [err |-> Some("lock held by another instance"), disk |-> disk, lock |-> lock]
    ELSE [err |-> None,
          disk |-> [disk EXCEPT ![path] =
                      create_missing(@, {opt_cfs[i][1] : i \in DOMAIN opt_cfs})],
          lock |-> [lock EXCEPT ![path] = h]]

\* typed_store::rocks::open_cf_opts_secondary: read-only secondary instance;
\* takes no lock and leaves the store as it is.  Its view is the store's
\* state at the time of the open.
open_cf_opts_secondary(path, secondary_path, opt_cfs) ==
    IF ~disk[path].exists
       \/ ~({opt_cfs[i][1] : i \in DOMAIN opt_cfs} \subseteq disk[path].cfs)
    THEN [err |-> Some("no such store or column family"), view |-> <<>>]
    ELSE [err |-> None, view |-> disk[path].data]

\* DBMap::reopen(&db, Some(name)): binds a handle to a column family
reopen(path, name) ==
    IF name \in disk[path].cfs THEN [err |-> None] ELSE [err |-> Some("no column family")]

\* Map::try_catch_up_with_primary: the secondary's view becomes the
\* primary's persisted state, for the whole engine instance.
try_catch_up_with_primary(handle) == disk[handle.path].data

\* Map::iter: the entries of a table in key order
RECURSIVE iter(_)
iter(tbl) ==
    IF tbl = {} THEN <<>>
    ELSE LET m == CHOOSE e \in tbl : \A f \in tbl : e[1] <= f[1]
         IN  <<m>> \o iter(tbl \ {m})

put(tbl, k, v) == {e \in tbl : e[1] # k} \cup {<<k, v>>}
delete(tbl, k) == {e \in tbl : e[1] # k}

\* Closing an engine instance releases the write lock it holds.
engine_close(h) == [p \in Paths |-> IF lock[p] = h THEN NoHolder ELSE lock[p]]

(***************************************************************************)
(* Part 4.  The generated code: options resolution and open.               *)
(***************************************************************************)

\* A faulty options resolution: a table without an entry in the caller's map
\* falls back to its override function instead of failing.
resolve_opt_cfs_lenient(tables_db_options_override) ==
    [panic |-> None,
     opt_cfs |-> [i \in DOMAIN field_names |->
                    <<field_names[i],
                      IF tables_db_options_override # None
                         /\ field_names[i] \in DOMAIN tables_db_options_override[1]
                      THEN tables_db_options_override[1][field_names[i]]
                      ELSE OptionsFrom(default_options_override_fn_names[i])>>]]

\* A faulty options resolution: a table that declares an override function
\* keeps the function's options when the caller supplies a map.
resolve_opt_cfs_merged(tables_db_options_override) ==
    IF tables_db_options_override # None
       /\ \E i \in DOMAIN field_names :
             field_names[i] \notin DOMAIN tables_db_options_override[1]
    THEN [panic |-> Some(PanicUnwrapNone), opt_cfs |-> <<>>]
    ELSE [panic |-> None,
          opt_cfs |-> [i \in DOMAIN field_names |->
                         <<field_names[i],
                           IF tables_db_options_override = None
                              \/ default_options_override_fn_names[i]
                                    # DEFAULT_DB_OPTIONS_CUSTOM_FN
                           THEN OptionsFrom(default_options_override_fn_names[i])
                           ELSE tables_db_options_override[1][field_names[i]]>>]]

\* lib.rs:401-412.  None: every table's options come from its override
\* function.  Some(o): every table's options are o's entry, and a missing
\* entry is an unwrap() on None.
resolve_opt_cfs(tables_db_options_override) ==
    IF tables_db_options_override = None
    THEN [panic |-> None,
          opt_cfs |-> [i \in DOMAIN field_names |->
                         <<field_names[i],
                           OptionsFrom(default_options_override_fn_names[i])>>]]
    ELSE LET o == tables_db_options_override[1]
         IN  IF \E i \in DOMAIN field_names : field_names[i] \notin DOMAIN o
             THEN [panic |-> Some(PanicUnwrapNone), opt_cfs |-> <<>>]
             ELSE [panic |-> None,
                   opt_cfs |-> [i \in DOMAIN field_names |->
                                  <<field_names[i], o[field_names[i]]>>]]

\* A faulty open_tables_impl: when the engine refuses the secondary open it
\* opens the store read-write instead of failing (a retry in place of the
\* expect() of lib.rs:421).
open_tables_impl_retrying(h, path, as_secondary_with_path, tables_db_options_override) ==
    LET r == resolve_opt_cfs(tables_db_options_override)
        refused == as_secondary_with_path # None
                   /\ open_cf_opts_secondary(path, as_secondary_with_path[1],
                                             r.opt_cfs).err # None
        res == open_cf_opts(h, path, r.opt_cfs)
    IN  IF r.panic # None
        THEN [panic |-> r.panic, engine_ops |-> <<>>, disk |-> disk, lock |-> lock,
              inner |-> NoHandle]
        ELSE IF as_secondary_with_path # None /\ ~refused
        THEN [panic |-> None,
              engine_ops |-> <<<<"open_cf_opts_secondary", path,
                                 as_secondary_with_path[1], r.opt_cfs>>>>,
              disk |-> disk, lock |-> lock,
              inner |-> [mode |-> "secondary", path |-> path,
                         secondary_path |-> as_secondary_with_path,
                         view |-> open_cf_opts_secondary(path, as_secondary_with_path[1],
                                                         r.opt_cfs).view]]
        ELSE IF res.err # None
        THEN [panic |-> Some("Cannot open DB."),
              engine_ops |-> <<<<"open_cf_opts", path, "", r.opt_cfs>>>>,
              disk |-> res.disk, lock |-> res.lock, inner |-> NoHandle]
        ELSE [panic |-> None,
              engine_ops |-> <<<<"open_cf_opts", path, "", r.opt_cfs>>>>,
              disk |-> res.disk, lock |-> res.lock,
              inner |-> [mode |-> "primary", path |-> path,
                         secondary_path |-> None, view |-> <<>>]]

\* lib.rs:393-436.  Returns what the call leaves behind: the panic if any,
\* the engine calls made, the store, the locks and the engine handle.
open_tables_impl(h, path, as_secondary_with_path, tables_db_options_override) ==
    LET r == resolve_opt_cfs(tables_db_options_override)
    IN  IF r.panic # None
        THEN [panic |-> r.panic, engine_ops |-> <<>>, disk |-> disk, lock |-> lock,
              inner |-> NoHandle]
        ELSE IF as_secondary_with_path # None
        THEN LET res == open_cf_opts_secondary(path, as_secondary_with_path[1], r.opt_cfs)
                 call == <<"open_cf_opts_secondary", path, as_secondary_with_path[1], r.opt_cfs>>
             IN  IF res.err # None
                 THEN [panic |-> Some("Cannot open DB."), engine_ops |-> <<call>>,
                       disk |-> disk, lock |-> lock, inner |-> NoHandle]
                 ELSE IF \E i \in DOMAIN field_names : reopen(path, field_names[i]).err # None
                 THEN [panic |-> Some("Cannot open {} CF."), engine_ops |-> <<call>>,
                       disk |-> disk, lock |-> lock, inner |-> NoHandle]
                 ELSE [panic |-> None, engine_ops |-> <<call>>,
                       disk |-> disk, lock |-> lock,
                       inner |-> [mode |-> "secondary", path |-> path,
                                  secondary_path |-> as_secondary_with_path,
                                  view |-> res.view]]
        ELSE LET res == open_cf_opts(h, path, r.opt_cfs)
                 call == <<"open_cf_opts", path, "", r.opt_cfs>>
             IN  IF res.err # None
                 THEN [panic |-> Some("Cannot open DB."), engine_ops |-> <<call>>,
                       disk |-> res.disk, lock |-> res.lock, inner |-> NoHandle]
                 ELSE IF \E i \in DOMAIN field_names :
                            field_names[i] \notin res.disk[path].cfs
                 THEN \* the engine instance is dropped by the unwinding
                      [panic |-> Some("Cannot open {} CF."), engine_ops |-> <<call>>,
                       disk |-> res.disk, lock |-> lock, inner |-> NoHandle]
                 ELSE [panic |-> None, engine_ops |-> <<call>>,
                       disk |-> res.disk, lock |-> res.lock,
                       inner |-> [mode |-> "primary", path |-> path,
                                  secondary_path |-> None, view |-> <<>>]]

\* A faulty open_tables_read_write: it hands out the table set even when the
\* engine refused the open (the expect() of lib.rs:421 left out).
open_tables_read_write_unchecked(h, path, tables_db_options_override) ==
    LET r == open_tables_impl(h, path, None, tables_db_options_override)
    IN  [panic |-> None, engine_ops |-> r.engine_ops, disk |-> r.disk, lock |-> r.lock,
         scratch |-> scratch, tmpSeq |-> tmpSeq,
         handle |-> [struct |-> "ReadWrite", mode |-> "primary", path |-> path,
                     secondary_path |-> None, tmp |-> None, view |-> <<>>]]

\* lib.rs:452-463
open_tables_read_write(h, path, tables_db_options_override) ==
    LET r == open_tables_impl(h, path, None, tables_db_options_override)
    IN  [panic |-> r.panic, engine_ops |-> r.engine_ops, disk |-> r.disk, lock |-> r.lock,
         scratch |-> scratch, tmpSeq |-> tmpSeq,
         handle |-> IF r.panic # None THEN NoHandle
                    ELSE [struct |-> "ReadWrite", mode |-> r.inner.mode, path |-> r.inner.path,
                          secondary_path |-> r.inner.secondary_path, tmp |-> None,
                          view |-> r.inner.view]]

\* tempfile::tempdir().into_path(): a fresh directory, persisted (into_path
\* gives up the guard that would delete it).
tempdir_into_path == "tmp" \o ToString(tmpSeq + 1)

\* A faulty open_tables_read_only: it passes no secondary path to
\* open_tables_impl (None for the Some(..) of lib.rs:511 and 516), so the
\* engine opens the store read-write.
open_tables_read_only_as_primary(h, primary_path, with_secondary_path) ==
    LET r == open_tables_impl(h, primary_path, None, None)
    IN  [panic |-> r.panic, engine_ops |-> r.engine_ops, disk |-> r.disk, lock |-> r.lock,
         scratch |-> scratch, tmpSeq |-> tmpSeq,
         handle |-> IF r.panic # None THEN NoHandle
                    ELSE [struct |-> "ReadOnly", mode |-> r.inner.mode, path |-> r.inner.path,
                          secondary_path |-> r.inner.secondary_path, tmp |-> None,
                          view |-> r.inner.view]]

\* lib.rs:505-524
open_tables_read_only(h, primary_path, with_secondary_path) ==
    LET p == IF with_secondary_path # None THEN with_secondary_path[1] ELSE tempdir_into_path
        r == open_tables_impl(h, primary_path, Some(p), None)
        made == with_secondary_path = None
    IN  [panic |-> r.panic, engine_ops |-> r.engine_ops, disk |-> r.disk, lock |-> r.lock,
         scratch |-> IF made THEN scratch \cup {p} ELSE scratch,
         tmpSeq |-> IF made THEN tmpSeq + 1 ELSE tmpSeq,
         handle |-> IF r.panic # None THEN NoHandle
                    ELSE [struct |-> "ReadOnly", mode |-> r.inner.mode, path |-> r.inner.path,
                          secondary_path |-> r.inner.secondary_path,
                          tmp |-> IF made THEN Some(p) ELSE None,
                          view |-> r.inner.view]]

\* A faulty get_read_only_handle: it goes through open_tables_read_write and
\* so asks for the write lock.
get_read_only_handle_locking(h, primary_path, with_secondary_path) ==
    LET r == open_tables_read_write(h, primary_path, None)
    IN  [r EXCEPT !.handle = IF r.panic # None THEN NoHandle
                             ELSE [@ EXCEPT !.struct = "ReadOnly"]]

\* lib.rs:480-486
get_read_only_handle(h, primary_path, with_secondary_path) ==
    open_tables_read_only(h, primary_path, with_secondary_path)

(***************************************************************************)
(* Part 5.  Machine integers.  A usize is UsizeBytes little-endian bytes,  *)
(* so that the product of dump() has the width it has in the program.      *)
(***************************************************************************)
UsizeBytes == 8        \* usize of a 64-bit target
U16Max == 65535        \* page_size: u16

\* the usize of a number below 2^16
usize(n) ==
    [i \in 1..UsizeBytes |->
        IF i = 1 THEN n % 256 ELSE IF i = 2 THEN (n \div 256) % 256 ELSE 0]
usize_high_bit == [i \in 1..UsizeBytes |-> IF i = UsizeBytes THEN 128 ELSE 0]

\* a * b byte by byte; the last element of the result is the carry out of
\* the top byte, so the result is the mathematical product.
RECURSIVE mul_bytes(_, _, _, _)
mul_bytes(a, b, i, carry) ==
    IF i > Len(a) THEN <<carry>>
    ELSE LET t == a[i] * b + carry
         IN  <<t % 256>> \o mul_bytes(a, b, i + 1, t \div 256)

exact_product(a, b) == mul_bytes(a, b, 1, 0)
overflows(a, b) == exact_product(a, b)[UsizeBytes + 1] # 0
wrapping_mul(a, b) == SubSeq(exact_product(a, b), 1, UsizeBytes)

\* The number a byte string stands for, as far as it matters to a sequence
\* of at most U16Max entries: anything larger is U16Max + 1.
clamp(bytes) ==
    IF \E i \in 3..Len(bytes) : bytes[i] # 0 THEN U16Max + 1
    ELSE bytes[1] + 256 * bytes[2]

\* Iterator::skip and Iterator::take on a finite sequence
skip(seq, n) == IF n >= Len(seq) THEN <<>> ELSE SubSeq(seq, n + 1, Len(seq))
take(seq, n) == IF n >= Len(seq) THEN seq ELSE SubSeq(seq, 1, n)

\* format!("{:?}", k) of an i32 key and of a String value
fmt_debug_key(k) == ToString(k)
fmt_debug_value(v) == "\"" \o v \o "\""

\* collect::<BTreeMap<_, _>>() of a sequence of pairs: a later pair replaces
\* an earlier one with the same key
collect_btreemap(pairs) ==
    [k \in {pairs[i][1] : i \in DOMAIN pairs} |->
        pairs[CHOOSE i \in DOMAIN pairs :
                /\ pairs[i][1] = k
                /\ \A j \in DOMAIN pairs : pairs[j][1] = k => j <= i][2]]

(***************************************************************************)
(* Part 6.  The generated introspection of the read-only handle set.       *)
(***************************************************************************)

\* A faulty dump: it catches up with the primary before it looks at the table
\* name (the call of lib.rs:532 moved in front of the match).
dump_catching_up_first(handle, table_name, page_size, page_number, checked) ==
    LET view == try_catch_up_with_primary(handle)
    IN  IF table_name \in Names
        THEN LET n == clamp(wrapping_mul(page_number, page_size))
                 page == take(skip(iter(view[table_name]), n), page_size)
             IN  IF overflows(page_number, page_size) /\ checked
                 THEN [outcome |-> "panic", value |-> "attempt to multiply with overflow",
                       view |-> view,
                       engine_ops |-> <<"try_catch_up_with_primary", "iter">>]
                 ELSE [outcome |-> "Ok",
                       value |-> collect_btreemap(
                                    [i \in DOMAIN page |->
                                        <<fmt_debug_key(page[i][1]),
                                          fmt_debug_value(page[i][2])>>]),
                       view |-> view,
                       engine_ops |-> <<"try_catch_up_with_primary", "iter">>]
        ELSE [outcome |-> "Err", value |-> "No such table name: " \o table_name,
              view |-> view, engine_ops |-> <<"try_catch_up_with_primary">>]

\* lib.rs:528-544.  checked tells how the build treats the overflow
\* of page_number * page_size: a panic (debug) or a wrap (release).
dump(handle, table_name, page_size, page_number, checked) ==
    IF table_name \in Names
    THEN LET view == try_catch_up_with_primary(handle)
             ops == <<"try_catch_up_with_primary", "iter">>
         IN  IF overflows(page_number, page_size) /\ checked
             THEN [outcome |-> "panic", value |-> "attempt to multiply with overflow",
                   view |-> view, engine_ops |-> ops]
             ELSE LET n == clamp(wrapping_mul(page_number, page_size))
                      page == take(skip(iter(view[table_name]), n), page_size)
                  IN  [outcome |-> "Ok",
                       value |-> collect_btreemap(
                                    [i \in DOMAIN page |->
                                        <<fmt_debug_key(page[i][1]),
                                          fmt_debug_value(page[i][2])>>]),
                       view |-> view, engine_ops |-> ops]
    ELSE [outcome |-> "Err", value |-> "No such table name: " \o table_name,
          view |-> handle.view, engine_ops |-> <<>>]

\* A faulty count_keys: it counts the handle's view as it is, without the
\* try_catch_up_with_primary of lib.rs:552.
count_keys_stale(handle, table_name) ==
    IF table_name \in Names
    THEN [outcome |-> "Ok", value |-> Len(iter(handle.view[table_name])),
          view |-> handle.view, engine_ops |-> <<"iter">>]
    ELSE [outcome |-> "Err", value |-> "No such table name: " \o table_name,
          view |-> handle.view, engine_ops |-> <<>>]

\* lib.rs:548-559
count_keys(handle, table_name) ==
    IF table_name \in Names
    THEN LET view == try_catch_up_with_primary(handle)
         IN  [outcome |-> "Ok", value |-> Len(iter(view[table_name])),
              view |-> view, engine_ops |-> <<"try_catch_up_with_primary", "iter">>]
    ELSE [outcome |-> "Err", value |-> "No such table name: " \o table_name,
          view |-> handle.view, engine_ops |-> <<>>]

\* A faulty catch-up: the call goes on to read without
\* try_catch_up_with_primary, on the view the handle already has.
call_catch_up_skipped(handle) == handle.view

\* lib.rs:533 and lib.rs:552: the first engine call of dump and of count_keys
\* on a declared table; the view the secondary has afterwards.
call_catch_up(handle) == try_catch_up_with_primary(handle)

\* lib.rs:534-538: what dump does after its catch-up, on the view the
\* handle has when the iterator is created.
dump_read(handle, table_name, page_size, page_number, checked) ==
    IF overflows(page_number, page_size) /\ checked
    THEN [outcome |-> "panic", value |-> "attempt to multiply with overflow",
          engine_ops |-> <<"iter">>]
    ELSE LET n == clamp(wrapping_mul(page_number, page_size))
             page == take(skip(iter(handle.view[table_name]), n), page_size)
         IN  [outcome |-> "Ok",
              value |-> collect_btreemap(
                           [i \in DOMAIN page |->
                               <<fmt_debug_key(page[i][1]),
                                 fmt_debug_value(page[i][2])>>]),
              engine_ops |-> <<"iter">>]

\* lib.rs:553: what count_keys does after its catch-up.
count_keys_read(handle, table_name) ==
    [outcome |-> "Ok", value |-> Len(iter(handle.view[table_name])),
     engine_ops |-> <<"iter">>]

\* lib.rs:573-580
dump_table(handle, table_name, page_size, page_number, checked) ==
    dump(handle, table_name, page_size, page_number, checked)

\* lib.rs:590-592
count_table_keys(handle, table_name) == count_keys(handle, table_name)

\* Map::insert / Map::remove through the table handle `table` of a handle
\* set: a primary instance persists the write, a secondary instance refuses.
table_insert(handle, table, k, v) ==
    IF handle.mode = "primary"
    THEN [outcome |-> "Ok",
          disk |-> [disk EXCEPT ![handle.path].data[table] = put(@, k, v)]]
    ELSE [outcome |-> "ReadOnly", disk |-> disk]

table_remove(handle, table, k) ==
    IF handle.mode = "primary"
    THEN [outcome |-> "Ok",
          disk |-> [disk EXCEPT ![handle.path].data[table] = delete(@, k)]]
    ELSE [outcome |-> "ReadOnly", disk |-> disk]

\* Dropping a handle set drops its engine instance.  The handle set holds
\* the secondary path as a plain path inside the engine, not a TempDir
\* guard (lib.rs:513-515), so the drop removes no directory.
drop_handle_set(h) ==
    [lock |-> engine_close(h), scratch |-> scratch]

(***************************************************************************)
(* Part 7.  The state machine: calls on the generated code.  The inputs    *)
(* of the calls are drawn from the sets of a record `in`, so that one      *)
(* specification explores the open protocol on several paths and another   *)
(* the introspection of tables with several entries.                       *)
(***************************************************************************)
\* <<page_size, page_number>>: an empty page, the first, second and third
\* page of one entry, the first and second page of two entries, and two
\* page numbers whose product with the page size is 2^63 and 2^64
Pages ==
    { <<0, usize(1)>>, <<1, usize(0)>>, <<1, usize(1)>>, <<1, usize(2)>>,
      <<2, usize(0)>>, <<2, usize(1)>>, <<1, usize_high_bit>>, <<2, usize_high_bit>> }
GivenSecondary == {Some(q) : q \in GivenSecondaryPaths}

OnePage == {<<"table2", 1, usize(0)>>}
OneWrite == {<<"table2", 1, "x">>}

\* The open protocol: up to MaxHandles handle sets on one path, with and
\* without a secondary path of the caller's.
ProtocolInputs ==
    [paths |-> {"p1"},
     overrides |-> {None},
     secondary |-> {None} \cup GivenSecondary,
     handles |-> MaxHandles,
     writes |-> OneWrite,
     pages |-> OnePage, debug_pages |-> OnePage,
     tables |-> {"table2"}]

\* The write lock: two paths, up to MaxHandles handle sets.
LockInputs ==
    [paths |-> Paths,
     overrides |-> {None},
     secondary |-> GivenSecondary,
     handles |-> MaxHandles,
     writes |-> OneWrite,
     pages |-> OnePage, debug_pages |-> OnePage,
     tables |-> {"table2"}]

\* Options resolution: every override map.
OptionsInputs ==
    [paths |-> {"p1"},
     overrides |-> OverrideChoices,
     secondary |-> GivenSecondary,
     handles |-> MaxOpeners,
     writes |-> OneWrite,
     pages |-> OnePage, debug_pages |-> OnePage,
     tables |-> {"table2"}]

\* The handle sets of the documentation's example (lib.rs:249-252): the
\* table set opened read-write and the read-only handle got for its path.
ExampleHandleSets == 2

\* Introspection: the example's two handle sets on one path, a table of up
\* to MaxKey entries, the pages of Pages.
IntrospectInputs ==
    [paths |-> {"p1"},
     overrides |-> {None},
     secondary |-> GivenSecondary,
     handles |-> ExampleHandleSets,
     writes |-> ({"table2"} \X Keys \X {"x"}) \cup {<<"table2", 1, "y">>},
     pages |-> {<<"table2", pg[1], pg[2]>> : pg \in Pages}
                  \cup {<<"table3", 1, usize(0)>>, <<"no_such_table", 1, usize(0)>>},
     debug_pages |-> {<<"table2", 1, usize(1)>>, <<"no_such_table", 1, usize(0)>>},
     tables |-> TableNames]

\* The slots of the calls in flight, and the empty slot.
CallIds == 1..MaxInflight
NoCall == [op |-> "none"]

Live == {h \in HandleIds : handles[h] # NoHandle}
Free == HandleIds \ Live
NextHandle == CHOOSE h \in Free : \A g \in Free : h <= g

EngineInit ==
    /\ disk = [p \in Paths |-> NoStore]
    /\ lock = [p \in Paths |-> NoHolder]
    /\ handles = [h \in HandleIds |-> NoHandle]
    /\ scratch = {}
    /\ tmpSeq = 0
    /\ inflight = [c \in CallIds |-> NoCall]
    /\ last = [op |-> "init"]

Init ==
    /\ input = TablesStruct
    /\ derived = Generated
    /\ EngineInit

Opened(op, h, path, override, with_secondary_path, r) ==
    /\ disk' = r.disk
    /\ lock' = r.lock
    /\ scratch' = r.scratch
    /\ tmpSeq' = r.tmpSeq
    /\ handles' = IF r.panic = None THEN [handles EXCEPT ![h] = r.handle] ELSE handles
    /\ last' = [op |-> op, h |-> h, path |-> path, override |-> override,
                with_secondary_path |-> with_secondary_path,
                panic |-> r.panic, engine_ops |-> r.engine_ops]
    /\ UNCHANGED <<input, derived, inflight>>

\* Tables::open_tables_read_write(path, None, tables_db_options_override)
OpenTablesReadWrite(path, tables_db_options_override) ==
    /\ Free # {}
    /\ Opened("open_tables_read_write", NextHandle, path, tables_db_options_override, None,
              open_tables_read_write(NextHandle, path, tables_db_options_override))

\* Tables::get_read_only_handle(primary_path, with_secondary_path, None)
GetReadOnlyHandle(primary_path, with_secondary_path) ==
    /\ Free # {}
    /\ with_secondary_path = None => tmpSeq < MaxScratch
    /\ Opened("get_read_only_handle", NextHandle, primary_path, None, with_secondary_path,
              get_read_only_handle(NextHandle, primary_path, with_secondary_path))

\* handle_set.<table>.insert(&k, &v)
Insert(h, table, k, v) ==
    /\ h \in Live
    /\ LET r == table_insert(handles[h], table, k, v)
       IN  /\ disk' = r.disk
           /\ last' = [op |-> "insert", h |-> h, table |-> table, key |-> k,
                       outcome |-> r.outcome]
    /\ UNCHANGED <<input, derived, lock, handles, scratch, tmpSeq, inflight>>

\* handle_set.<table>.remove(&k)
Remove(h, table, k) ==
    /\ h \in Live
    /\ LET r == table_remove(handles[h], table, k)
       IN  /\ disk' = r.disk
           /\ last' = [op |-> "remove", h |-> h, table |-> table, key |-> k,
                       outcome |-> r.outcome]
    /\ UNCHANGED <<input, derived, lock, handles, scratch, tmpSeq, inflight>>

Introspected(op, h, table_name, page_size, page_number, checked, r) ==
    /\ handles' = [handles EXCEPT ![h].view = r.view]
    /\ last' = [op |-> op, h |-> h, table |-> table_name, page_size |-> page_size,
                page_number |-> page_number, checked |-> checked,
                outcome |-> r.outcome, value |-> r.value, engine_ops |-> r.engine_ops]
    /\ UNCHANGED <<input, derived, disk, lock, scratch, tmpSeq, inflight>>

\* The build decides what an overflowing product does: with overflow checks
\* (checked, a debug build) it panics, without them it wraps.  The two builds
\* differ only on a call whose product overflows.
Builds(page_size, page_number) ==
    IF overflows(page_number, page_size) THEN BOOLEAN ELSE {FALSE}

\* read_only_handle.dump(table_name, page_size, page_number)
Dump(h, table_name, page_size, page_number) ==
    /\ h \in Live
    /\ handles[h].struct = "ReadOnly"
    /\ \E checked \in Builds(page_size, page_number) :
          Introspected("dump", h, table_name, page_size, page_number, checked,
                       dump(handles[h], table_name, page_size, page_number, checked))

\* read_only_handle.dump_table(table_name, page_size, page_number)
DumpTable(h, table_name, page_size, page_number) ==
    /\ h \in Live
    /\ handles[h].struct = "ReadOnly"
    /\ \E checked \in Builds(page_size, page_number) :
          Introspected("dump_table", h, table_name, page_size, page_number, checked,
                       dump_table(handles[h], table_name, page_size, page_number, checked))

\* read_only_handle.count_keys(table_name)
CountKeys(h, table_name) ==
    /\ h \in Live
    /\ handles[h].struct = "ReadOnly"
    /\ Introspected("count_keys", h, table_name, 0, usize(0), FALSE,
                    count_keys(handles[h], table_name))

\* read_only_handle.count_table_keys(table_name)
CountTableKeys(h, table_name) ==
    /\ h \in Live
    /\ handles[h].struct = "ReadOnly"
    /\ Introspected("count_table_keys", h, table_name, 0, usize(0), FALSE,
                    count_table_keys(handles[h], table_name))

\* drop(handle_set)
Drop(h) ==
    /\ h \in Live
    /\ \A c \in CallIds : inflight[c] # NoCall => inflight[c].h # h
    /\ LET r == drop_handle_set(h)
       IN  /\ lock' = r.lock
           /\ scratch' = r.scratch
           /\ last' = [op |-> "drop", h |-> h, tmp |-> handles[h].tmp]
    /\ handles' = [handles EXCEPT ![h] = NoHandle]
    /\ UNCHANGED <<input, derived, disk, tmpSeq, inflight>>

NextOf(in) ==
    \/ \E p \in in.paths, o \in in.overrides :
          Cardinality(Live) < in.handles /\ OpenTablesReadWrite(p, o)
    \/ \E p \in in.paths, s \in in.secondary :
          Cardinality(Live) < in.handles /\ GetReadOnlyHandle(p, s)
    \/ \E h \in HandleIds, w \in in.writes : Insert(h, w[1], w[2], w[3])
    \/ \E h \in HandleIds, w \in in.writes : Remove(h, w[1], w[2])
    \/ \E h \in HandleIds, a \in in.pages : Dump(h, a[1], a[2], a[3])
    \/ \E h \in HandleIds, a \in in.debug_pages : DumpTable(h, a[1], a[2], a[3])
    \/ \E h \in HandleIds, t \in in.tables : CountKeys(h, t)
    \/ \E h \in HandleIds, t \in in.tables : CountTableKeys(h, t)
    \/ \E h \in HandleIds : Drop(h)

Next == NextOf(ProtocolInputs)
Spec == Init /\ [][Next]_vars

NextLock == NextOf(LockInputs)
SpecLock == Init /\ [][NextLock]_vars

NextOptions == NextOf(OptionsInputs)
SpecOptions == Init /\ [][NextOptions]_vars

NextIntrospect == NextOf(IntrospectInputs)
SpecIntrospect == Init /\ [][NextIntrospect]_vars

(***************************************************************************)
(* The calls of dump and count_keys taken apart.  Both are &self methods   *)
(* making two engine calls, the catch-up (lib.rs:533, 552) and the read    *)
(* (lib.rs:534-538, 553); other calls on the same handle set, and the      *)
(* primary's writes, can run between the two.                              *)
(***************************************************************************)
FreeCalls == {c \in CallIds : inflight[c] = NoCall}
NextCall == CHOOSE c \in FreeCalls : \A d \in FreeCalls : c <= d

\* The first half of read_only_handle.dump(..) / .count_keys(..) on a
\* declared table: the match arm is entered and the secondary catches up.
BeginCall(op, h, table_name, page_size, page_number) ==
    /\ FreeCalls # {}
    /\ h \in Live
    /\ handles[h].struct = "ReadOnly"
    /\ table_name \in Names
    /\ LET view == call_catch_up(handles[h])
       IN  /\ handles' = [handles EXCEPT ![h].view = view]
           /\ inflight' = [inflight EXCEPT ![NextCall] =
                              [op |-> op, h |-> h, table |-> table_name,
                               page_size |-> page_size, page_number |-> page_number,
                               caught |-> view]]
    /\ last' = [op |-> "try_catch_up_with_primary", h |-> h, table |-> table_name,
                call |-> NextCall]
    /\ UNCHANGED <<input, derived, disk, lock, scratch, tmpSeq>>

\* The second half: the call reads the view the handle set has now and
\* returns.  caught is the snapshot of the call's own catch-up, observed the
\* snapshot it read.
FinishCall(c) ==
    /\ inflight[c] # NoCall
    /\ LET call == inflight[c]
           handle == handles[call.h]
       IN  \E checked \in Builds(call.page_size, call.page_number) :
              LET r == IF call.op = "dump"
                       THEN dump_read(handle, call.table, call.page_size,
                                      call.page_number, checked)
                       ELSE count_keys_read(handle, call.table)
              IN  last' = [op |-> call.op, h |-> call.h, table |-> call.table,
                           page_size |-> call.page_size,
                           page_number |-> call.page_number, checked |-> checked,
                           outcome |-> r.outcome, value |-> r.value,
                           engine_ops |-> <<"try_catch_up_with_primary">> \o r.engine_ops,
                           caught |-> call.caught, observed |-> handle.view]
    /\ inflight' = [inflight EXCEPT ![c] = NoCall]
    /\ UNCHANGED <<input, derived, disk, lock, handles, scratch, tmpSeq>>

\* The calls taken apart: dump of the second page of one entry, and
\* count_keys, on a declared table.
CatchUpCalls ==
    {<<"dump", "table2", 1, usize(1)>>, <<"count_keys", "table2", 0, usize(0)>>}

\* Writes that only add entries, in key order: the persisted state of a
\* later moment contains that of every earlier moment, so a snapshot is at
\* least as new as another exactly when it contains it.
AppendOnlyWrites ==
    {w \in {"table2"} \X Keys \X {"x"} :
        /\ disk["p1"].exists
        /\ \A k \in 1..(w[2] - 1) : <<k, "x">> \in disk["p1"].data["table2"]}

\* The example's two handle sets on one path; the primary appends entries
\* while up to MaxInflight calls run on the read-only handle set.
NextCatchUp ==
    \/ Cardinality(Live) < ExampleHandleSets /\ OpenTablesReadWrite("p1", None)
    \/ \E s \in GivenSecondary :
          Cardinality(Live) < ExampleHandleSets /\ GetReadOnlyHandle("p1", s)
    \/ \E h \in HandleIds, w \in {"table2"} \X Keys \X {"x"} :
          w \in AppendOnlyWrites /\ Insert(h, w[1], w[2], w[3])
    \/ \E h \in HandleIds, a \in CatchUpCalls : BeginCall(a[1], h, a[2], a[3], a[4])
    \/ \E c \in CallIds : FinishCall(c)
    \/ \E h \in HandleIds : Dump(h, "no_such_table", 1, usize(0))
    \/ \E h \in HandleIds : CountKeys(h, "no_such_table")
    \/ \E h \in HandleIds : Drop(h)

SpecCatchUp == Init /\ [][NextCatchUp]_vars

(***************************************************************************)
(* The derive macro applied to every input of Inputs.                      *)
(***************************************************************************)
InitSchema ==
    /\ input \in Inputs
    /\ derived = NotDerived
    /\ EngineInit

Derive ==
    /\ derived = NotDerived
    /\ derived' = derive_dbmap_utils_general(input)
    /\ UNCHANGED <<input, disk, lock, handles, scratch, tmpSeq, inflight, last>>

NextSchema == Derive

SpecSchema == InitSchema /\ [][NextSchema]_vars

(***************************************************************************)
(* Part 8.  The properties checked.                                        *)
(***************************************************************************)

\* the live table sets that open_tables_read_write returned for path p
ReadWriteOn(p) == {h \in Live : handles[h].struct = "ReadWrite" /\ handles[h].path = p}

\* C1: on every path at most one table set opened with
\* open_tables_read_write is held at a time, and an open_tables_read_write on
\* a path where one is still held fails (it panics with "Cannot open DB.",
\* it does not succeed and does not wait).
C1_OnePrimaryPerPath ==
    /\ \A p \in Paths : Cardinality(ReadWriteOn(p)) <= 1
    /\ \A p \in Paths : ReadWriteOn(p) # {} => lock[p] \in ReadWriteOn(p)
    /\ (last.op = "open_tables_read_write" /\ ReadWriteOn(last.path) \ {last.h} # {})
          => /\ last.panic = Some("Cannot open DB.")
             /\ last.h \notin Live

\* C1 witness: a second open_tables_read_write on a path just failed while
\* the first table set is held, and another path has its own primary.
C1_SecondOpenRefused ==
    /\ last.op = "open_tables_read_write"
    /\ last.panic = Some("Cannot open DB.")
    /\ ReadWriteOn(last.path) # {}
    /\ \E p \in Paths \ {last.path} : ReadWriteOn(p) # {}

\* what the primary has persisted under the path of handle set h
Persisted(h) == disk[handles[h].path].data

\* C2: count_keys(t) on a read-only secondary, for a declared table t,
\* catches up with the primary first and then returns the number of entries
\* the primary has persisted in t at that moment: the call is Ok, its value
\* is the size of the persisted table, and the view it leaves is the
\* persisted state.
C2_CountAfterCatchUp ==
    (last.op = "count_keys" /\ last.table \in DeclaredNames)
        => /\ last.outcome = "Ok"
           /\ last.engine_ops = <<"try_catch_up_with_primary", "iter">>
           /\ handles[last.h].view = Persisted(last.h)
           /\ last.value = Cardinality(Persisted(last.h)[last.table])

\* C2 witness: count_keys on a secondary returned 2 while the table set
\* opened as primary on the same path is still held.
C2_CountedTwo ==
    /\ last.op = "count_keys"
    /\ last.table = "table2"
    /\ last.value = 2
    /\ handles[last.h].mode = "secondary"
    /\ ReadWriteOn(handles[last.h].path) # {}

\* The entries at positions [N*P, N*P+P) of a table's iteration order,
\* positions counted from 0 and N*P the product of the two numbers (not of
\* the machine integers), rendered as debug strings.
PageOf(tbl, page_size, page_number) ==
    LET first == clamp(exact_product(page_number, page_size))
        seq == iter(tbl)
        at == {i \in DOMAIN seq : first < i /\ i <= first + page_size}
    IN  [s \in {fmt_debug_key(seq[i][1]) : i \in at} |->
            fmt_debug_value(seq[CHOOSE i \in at : fmt_debug_key(seq[i][1]) = s][2])]

\* C3: dump(t, P, N) on a declared table t returns, for every page size P
\* and page number N, the entries at positions [N*P, N*P+P) of the table as
\* it is after the call's catch-up, and the empty map (not an error) when
\* N*P is at or beyond the number of entries.
C3_DumpReturnsThePage ==
    (last.op = "dump" /\ last.table \in DeclaredNames)
        => /\ last.outcome = "Ok"
           /\ last.value = PageOf(Persisted(last.h)[last.table],
                                  last.page_size, last.page_number)

\* C3, for the calls whose product page_number * page_size fits a usize:
\* these return the page.
C3_DumpReturnsThePageUnlessOverflow ==
    (last.op = "dump" /\ last.table \in DeclaredNames
        /\ ~overflows(last.page_number, last.page_size))
        => /\ last.outcome = "Ok"
           /\ last.value = PageOf(Persisted(last.h)[last.table],
                                  last.page_size, last.page_number)

\* C3: the call dump("table2", 2, 2^63) of a build without overflow checks
\* on a table of two entries: 2^63 * 2 wraps to 0 and the call returns the
\* first page, where the page at position 2^64 is empty.
C3_WrappedProductReturnsFirstPage ==
    /\ last.op = "dump"
    /\ last.table = "table2"
    /\ last.page_size = 2
    /\ last.page_number = usize_high_bit
    /\ ~last.checked
    /\ last.outcome = "Ok"
    /\ DOMAIN last.value = {"1", "2"}

IntrospectionOps == {"dump", "count_keys", "dump_table", "count_table_keys"}

\* C4: dump, count_keys, dump_table and count_table_keys on a read-only
\* handle set, called with a name that is no declared table, return the
\* not-found error value; they do not panic, make no engine call (no
\* catch-up, no read of a table) and leave every handle set's view, and the
\* store, as they were.
C4_UnknownTableIsAnError ==
    [][(last'.op \in IntrospectionOps /\ last'.table \notin DeclaredNames)
          => /\ last'.outcome = "Err"
             /\ last'.value = "No such table name: " \o last'.table
             /\ last'.engine_ops = <<>>
             /\ handles' = handles
             /\ disk' = disk]_vars

\* C4 witness: dump_table of an unknown table returned the error, and the
\* handle set's view is still behind the primary.
C4_ErrorLeavesStaleView ==
    /\ last.op = "dump_table"
    /\ last.table = "no_such_table"
    /\ last.outcome = "Err"
    /\ handles[last.h].view # Persisted(last.h)

\* the caller's override map of the latest open lacks a declared table
LacksAnEntry(call) ==
    /\ call.override # None
    /\ \E t \in DeclaredNames : t \notin DOMAIN call.override[1]

\* C5: an open with a caller-supplied override map that lacks the entry of a
\* declared table fails on the lookup of the missing entry, before any
\* engine call: no primary or secondary open, no column family created, no
\* lock taken; the store, the locks and the handle sets are as before.
C5_MissingOverrideFailsBeforeEngine ==
    [][(last'.op = "open_tables_read_write" /\ LacksAnEntry(last'))
          => /\ last'.panic = Some(PanicUnwrapNone)
             /\ last'.engine_ops = <<>>
             /\ disk' = disk
             /\ lock' = lock
             /\ handles' = handles]_vars

\* C5 witness: the first open on a path, with a map for table2 only, failed
\* and the store was not created.
C5_FailedWithoutCreatingTheStore ==
    /\ last.op = "open_tables_read_write"
    /\ last.override # None
    /\ DOMAIN last.override[1] = {"table2"}
    /\ last.panic = Some(PanicUnwrapNone)
    /\ ~disk[last.path].exists
    /\ lock[last.path] = NoHolder

\* the override function table t of TablesStruct declares, or the
\* engine-wide default function when it declares none
DeclaredOverrideFn(t) ==
    LET f == TablesStruct.fields[CHOOSE i \in DOMAIN TablesStruct.fields :
                                    TablesStruct.fields[i].ident = Some(t)]
        fns == {f.attrs[j].value : j \in {k \in DOMAIN f.attrs :
                                            f.attrs[k].path = DB_OPTIONS_CUSTOM_FUNCTION}}
    IN  IF fns = {} THEN DEFAULT_DB_OPTIONS_CUSTOM_FN ELSE CHOOSE fn \in fns : TRUE

\* the per-table options handed to the engine by the latest open
OptionsUsed == last.engine_ops[1][4]

\* C6: the options an open hands to the engine never mix the two sources:
\* with a caller-supplied map every declared table gets its entry of the
\* map; without a map every declared table gets the result of its declared
\* override function, or of the engine-wide default function when it
\* declares none.
C6_OptionsFromOneSource ==
    (last.op \in {"open_tables_read_write", "get_read_only_handle"}
        /\ last.engine_ops # <<>>)
        => /\ {OptionsUsed[i][1] : i \in DOMAIN OptionsUsed} = DeclaredNames
           /\ Len(OptionsUsed) = Cardinality(DeclaredNames)
           /\ \A i \in DOMAIN OptionsUsed :
                 OptionsUsed[i][2] =
                    IF last.override # None
                    THEN last.override[1][OptionsUsed[i][1]]
                    ELSE OptionsFrom(DeclaredOverrideFn(OptionsUsed[i][1]))

\* C6 witness: an open with a full map succeeded, the map giving table2
\* (which declares an override function) and table3 different options.
C6_OpenedWithFullMap ==
    /\ last.op = "open_tables_read_write"
    /\ last.override # None
    /\ DOMAIN last.override[1] = DeclaredNames
    /\ last.override[1]["table2"] # last.override[1]["table3"]
    /\ last.panic = None
    /\ last.h \in Live

\* The field's type is an allowed table kind: DBMap or Store with
\* angle-bracketed type arguments.
TypeAllowed(f) ==
    /\ f.ty.kind = "Path"
    /\ f.ty.last \in {"DBMap", "Store"}
    /\ f.ty.last_arguments = "AngleBracketed"

SameWrapper(fields) ==
    \A i, j \in DOMAIN fields : fields[i].ty.last = fields[j].ty.last

GenericsSupported(item) ==
    \A i \in DOMAIN item.generics : item.generics[i].kind = "Type"

\* C7: schema validation accepts a list of fields if and only if the list
\* is not empty, every field's type is DBMap or Store with angle-bracketed
\* arguments, and all fields use the same one of the two; an empty list is
\* rejected as empty, a field of another type as an invalid field type, a
\* mix of DBMap and Store as heterogeneous; a rejected list yields no code.
C7_AcceptsExactlyTheValidSchemas ==
    (derived # NotDerived /\ GenericsSupported(input))
        => LET fs == input.fields
               allowed == \A i \in DOMAIN fs : TypeAllowed(fs[i])
           IN  /\ derived.code <=> (Len(fs) > 0 /\ allowed /\ SameWrapper(fs))
               /\ Len(fs) = 0 => (~derived.code /\ derived.panic = PanicEmpty)
               /\ ~allowed => (~derived.code /\ derived.panic = PanicInvalidFieldType)
               /\ (allowed /\ ~SameWrapper(fs))
                     => (~derived.code /\ derived.panic = PanicHeterogeneous)

\* C7: the macro was applied to struct Tables { table1:
\* typed_store::rocks::DBMap<i32, String> }, a single named field of an
\* allowed kind without attributes, and rejected it as an invalid field type.
C7_QualifiedDBMapRejected ==
    /\ derived # NotDerived
    /\ input.generics = <<>>
    /\ Len(input.fields) = 1
    /\ input.fields[1].ty = QualifiedMapType("DBMap")
    /\ input.fields[1].ident # None
    /\ input.fields[1].attrs = <<>>
    /\ ~derived.code
    /\ derived.panic = PanicInvalidFieldType

\* A field as the validation reads it without loss: named, its type written
\* as a single path segment, and its first default_options_override_fn
\* attribute, if any, of the form name = "string".
PlainField(f) ==
    /\ f.ident # None
    /\ f.ty.kind = "Path" => (f.ty.ident = f.ty.last /\ f.ty.arguments = f.ty.last_arguments)
    /\ \A j \in DOMAIN f.attrs :
          (f.attrs[j].path = DB_OPTIONS_CUSTOM_FUNCTION
             /\ \A k \in 1..(j - 1) : f.attrs[k].path # DB_OPTIONS_CUSTOM_FUNCTION)
          => (f.attrs[j].meta = "NameValue" /\ f.attrs[j].lit = "Str")

\* C7, for the lists of plain fields: on these the validation accepts
\* exactly the valid schemas and names the reasons as stated.
C7_AcceptsExactlyTheValidPlainSchemas ==
    (derived # NotDerived /\ GenericsSupported(input)
        /\ \A i \in DOMAIN input.fields : PlainField(input.fields[i]))
        => LET fs == input.fields
               allowed == \A i \in DOMAIN fs : TypeAllowed(fs[i])
           IN  /\ derived.code <=> (Len(fs) > 0 /\ allowed /\ SameWrapper(fs))
               /\ Len(fs) = 0 => (~derived.code /\ derived.panic = PanicEmpty)
               /\ ~allowed => (~derived.code /\ derived.panic = PanicInvalidFieldType)
               /\ (allowed /\ ~SameWrapper(fs))
                     => (~derived.code /\ derived.panic = PanicHeterogeneous)

\* C8: no insertion, update or deletion through a table handle of a
\* read-only handle set (one returned by get_read_only_handle /
\* open_tables_read_only) changes the store: the write fails with the
\* read-only error and the persisted contents are as before.
C8_ReadOnlyHandleCannotWrite ==
    [][(last'.op \in {"insert", "remove"} /\ handles[last'.h].struct = "ReadOnly")
          => /\ last'.outcome = "ReadOnly"
             /\ disk' = disk]_vars

\* C8 witness: an insert through a read-only handle set was refused while the
\* table holds an entry written by the primary.
C8_WriteRefused ==
    /\ last.op = "insert"
    /\ handles[last.h].struct = "ReadOnly"
    /\ last.outcome = "ReadOnly"
    /\ Persisted(last.h)[last.table] # {}

\* the store of path p was created by an open in primary mode, with the
\* column families of all declared tables
StoreExists(p) == disk[p].exists /\ DeclaredNames \subseteq disk[p].cfs

\* C9: a get_read_only_handle on a path whose store exists succeeds whatever
\* handle sets are open on the path (any number of secondaries, with or
\* without a primary), takes no lock, and leaves every handle set that was
\* open, and the store, as they were.
C9_SecondaryOpenAlwaysSucceeds ==
    [][(last'.op = "get_read_only_handle" /\ StoreExists(last'.path))
          => /\ last'.panic = None
             /\ handles'[last'.h].struct = "ReadOnly"
             /\ handles'[last'.h].mode = "secondary"
             /\ \A g \in Live : handles'[g] = handles[g]
             /\ lock' = lock
             /\ disk' = disk]_vars

\* C9 witness: a read-only handle set was just opened on a path where a
\* primary and another read-only handle set are open.
C9_OpenedBesidePrimaryAndSecondary ==
    /\ last.op = "get_read_only_handle"
    /\ last.panic = None
    /\ ReadWriteOn(last.path) # {}
    /\ \E g \in Live \ {last.h} :
          handles[g].struct = "ReadOnly" /\ handles[g].path = last.path

\* the temporary directories allocated for the live handle sets
ScratchOfLive == {handles[h].tmp[1] : h \in {g \in Live : handles[g].tmp # None}}

\* C10: the scratch location allocated for a read-only handle set opened
\* without a secondary path lives as long as the handle set: once the handle
\* set is dropped the location no longer exists, and the scratch locations
\* that exist are those of the live handle sets that allocated one.
C10_ScratchDiesWithHandleSet ==
    (last.op = "drop" /\ last.tmp # None)
        => /\ last.tmp[1] \notin scratch
           /\ scratch = ScratchOfLive

\* C10: a read-only handle set opened without a secondary path was dropped,
\* no handle set is left, and its temporary directory still exists.
C10_ScratchOutlivesHandleSet ==
    /\ last.op = "drop"
    /\ last.tmp # None
    /\ Live = {}
    /\ last.tmp[1] \in scratch


ReadOnlyIn(hs, h) == hs[h] # NoHandle /\ hs[h].struct = "ReadOnly"

\* One snapshot is at least as new as another (under append-only writes).
AtLeastAsNew(newer, older) == \A t \in DeclaredNames : older[t] \subseteq newer[t]

CompletedCall(l) ==
    l.op \in {"dump", "count_keys"} /\ l.table \in DeclaredNames /\ l.outcome = "Ok"

\* C11: a secondary handle set's view changes only at a catch-up.  In every
\* step: the view of a read-only handle set changes only in the catch-up of
\* a dump or count_keys call on a declared table of that handle set, and
\* then becomes the state the primary has persisted (so the primary's
\* writes, and calls naming an undeclared table, leave it as it was) and
\* never goes back to an older snapshot; a call that completes has read the
\* view its handle set had at the read, which is at least as new as the
\* snapshot of the call's own catch-up, and at least as new as the snapshot
\* read by the call that completed just before it on the same handle set;
\* what it returns is the count, or the page, of the snapshot it read.
C11_ViewChangesOnlyAtCatchUp ==
    [][/\ \A h \in HandleIds :
             (ReadOnlyIn(handles, h) /\ ReadOnlyIn(handles', h))
                 => /\ handles'[h].view # handles[h].view
                        => /\ last'.op = "try_catch_up_with_primary"
                           /\ last'.h = h
                           /\ last'.table \in DeclaredNames
                    /\ AtLeastAsNew(handles'[h].view, handles[h].view)
       /\ last'.op = "try_catch_up_with_primary"
             => /\ handles'[last'.h].view = disk[handles[last'.h].path].data
                /\ inflight'[last'.call].caught = handles'[last'.h].view
       /\ CompletedCall(last')
             => /\ last'.observed = handles[last'.h].view
                /\ AtLeastAsNew(last'.observed, last'.caught)
                /\ (CompletedCall(last) /\ last.h = last'.h /\ handles' = handles)
                       => AtLeastAsNew(last'.observed, last.observed)
                /\ last'.op = "count_keys"
                       => last'.value = Cardinality(last'.observed[last'.table])
                /\ last'.op = "dump"
                       => last'.value = PageOf(last'.observed[last'.table],
                                               last'.page_size, last'.page_number)
      ]_vars

\* C11 witness: a call has completed on a read-only handle set having read a
\* snapshot newer than the one of its own catch-up (another call on the same
\* handle set caught up in between), while an entry the primary persisted
\* after the last catch-up is still not in the handle set's view.
C11_StaleUntilNextCatchUp ==
    /\ CompletedCall(last)
    /\ last.observed # last.caught
    /\ ReadOnlyIn(handles, last.h)
    /\ handles[last.h].view = last.observed
    /\ Persisted(last.h) # handles[last.h].view
    /\ AtLeastAsNew(Persisted(last.h), handles[last.h].view)


OpenOps == {"open_tables_read_write", "get_read_only_handle"}

\* the engine refuses the open asked for by call l in the present state: a
\* primary open of a locked path, a secondary open of a path with no store
EngineRefuses(l) ==
    IF l.op = "open_tables_read_write"
    THEN lock[l.path] # NoHolder
    ELSE ~StoreExists(l.path)

C13_SkipIsTheExactProduct ==
    (last.op = "dump" /\ last.table \in DeclaredNames)
        => /\ last.outcome # "panic"
           /\ wrapping_mul(last.page_number, last.page_size) \o <<0>>
                 = exact_product(last.page_number, last.page_size)

\* C13: the call dump("table2", 2, 2^63) of a build with overflow checks:
\* 2^63 * 2 does not fit a usize and the call panics after its catch-up.
C13_OverflowAbortsTheCall ==
    /\ last.op = "dump"
    /\ last.table = "table2"
    /\ last.page_size = 2
    /\ last.page_number = usize_high_bit
    /\ last.checked
    /\ last.outcome = "panic"
    /\ last.value = "attempt to multiply with overflow"
    /\ handles[last.h].view = Persisted(last.h)

====
